---- MODULE Spec2Model ----
(***************************************************************************)
(* Model of the FastAPI service of src/main.py: JWT authentication,        *)
(* role-scoped reads of the requests table, user creation, and the         *)
(* Telegram bot handler that writes into the same table.                   *)
(*                                                                         *)
(* Spec     : one server process.  Every handler is an `async def` with no *)
(*            await inside, so it runs to completion: one action each.     *)
(* SpecConc : several server processes on the same database; create_user   *)
(*            is split at its database statements.                         *)
(***************************************************************************)
EXTENDS Integers, FiniteSets, Sequences, TLC

VARIABLES
    roles,     \* table roles    (models.py 7-10):  rows [id, name]
    users,     \* table users    (models.py 14-20): rows [id, username,
               \*                                   hashed_password, role_id]
    requests,  \* table requests (models.py 24-31): rows [id, bottoken, chatid,
               \*                                   message, user_id]
    tokens,    \* the access tokens the clients hold
    now,       \* datetime.utcnow(), in minutes
    resp,      \* the answer to the last call
    workers    \* SpecConc: the create_user call each server process is in

vars == <<roles, users, requests, tokens, now, resp, workers>>

(* ------------------------------ bounds --------------------------------- *)
MaxUsers == 2
MaxRequests == 2
MaxTokens == 1
MaxClock == 16

Usernames == {"alice", "bob"}
Passwords == {"pw1", "pw2"}
NewPasswords == {"pw1"}
Salts == {"s1"}
RoleNameInputs == {"admin", "Manager", "USER", "guest"}
Messages == {"hi"}
Workers == {"w1", "w2"}

(* ------------------------- program constants --------------------------- *)
SECRET_KEY == "secret"
ACCESS_TOKEN_EXPIRE_MINUTES == 30
DEFAULT_EXPIRE_MINUTES == 15
TELEGRAM_TOKEN == "bot-token"
allowed_roles == {"admin", "manager", "user"}

\* Python's None for a string value (payload.get("sub"), a missing role).
None == "None"
\* SQL NULL in an integer column; primary keys start at 1.
NULL == 0
\* expires_delta = None; a timedelta is a number of minutes >= 0.
NoDelta == -1
\* The clock advances in steps of this many minutes.
TickMinutes == 16

(* ------------------------------ models.py ------------------------------ *)
UserColumns == {"id", "username", "hashed_password", "role_id"}

NoUser == [id |-> NULL, username |-> None,
           hashed_password |-> [salt |-> None, digest |-> <<None, None>>],
           role_id |-> NULL]

MaxId(table) == CHOOSE m \in {r.id : r \in table} : \A r \in table : r.id <= m

\* The autoincrement primary key of the next inserted row.
NextId(table) == IF table = {} THEN 1 ELSE MaxId(table) + 1

\* user.role.name through the relationship on role_id.
RoleName(user) ==
    IF \E r \in roles : r.id = user.role_id
    THEN (CHOOSE r \in roles : r.id = user.role_id).name
    ELSE None

(* --------------------------- string helpers ---------------------------- *)
lower(s) ==
    CASE s = "admin" -> "admin"
      [] s = "Manager" -> "manager"
      [] s = "USER" -> "user"
      [] s = "guest" -> "guest"
      [] OTHER -> s

capitalize(s) ==
    CASE s = "admin" -> "Admin"
      [] s = "manager" -> "Manager"
      [] s = "user" -> "User"
      [] s = "guest" -> "Guest"
      [] OTHER -> s

(* --------------------------- password hashing -------------------------- *)
\* bcrypt: the digest depends on the salt, and the salt is kept in the hash.
hash_password(plain_password, salt) ==
    [salt |-> salt, digest |-> <<salt, plain_password>>]

verify_password(plain_password, hashed_password) ==
    hashed_password.digest = <<hashed_password.salt, plain_password>>

(* -------------------------------- tokens ------------------------------- *)
\* HS256: the signature is determined by the key and the signed claims.
jwt_encode(claims, key) ==
    [parses |-> TRUE, claims |-> claims, sig |-> [key |-> key, over |-> claims]]

\* jwt.decode that does not look at the exp claim; used to test the properties.
jwt_decode_no_exp(token, key, utcnow) ==
    IF ~token.parses THEN [ok |-> FALSE, payload |-> token.claims]
    ELSE IF token.sig # [key |-> key, over |-> token.claims]
    THEN [ok |-> FALSE, payload |-> token.claims]
    ELSE [ok |-> TRUE, payload |-> token.claims]

\* jose.jwt.decode: structure, then signature, then the exp claim.
jwt_decode(token, key, utcnow) ==
    IF ~token.parses THEN [ok |-> FALSE, payload |-> token.claims]
    ELSE IF token.sig # [key |-> key, over |-> token.claims]
    THEN [ok |-> FALSE, payload |-> token.claims]
    ELSE IF token.claims.exp < utcnow
    THEN [ok |-> FALSE, payload |-> token.claims]
    ELSE [ok |-> TRUE, payload |-> token.claims]

create_access_token(sub, expires_delta, utcnow) ==
    LET expire == IF expires_delta # NoDelta /\ expires_delta # 0
                  THEN utcnow + expires_delta
                  ELSE utcnow + DEFAULT_EXPIRE_MINUTES
    IN jwt_encode([sub |-> sub, exp |-> expire], SECRET_KEY)

get_current_user(token) ==
    LET dec == jwt_decode(token, SECRET_KEY, now)
        username == dec.payload.sub
    IN IF ~dec.ok
       THEN [status |-> 401, detail |-> "Could not validate credentials", user |-> NoUser]
       ELSE IF username = None
       THEN [status |-> 401, detail |-> "Could not validate credentials", user |-> NoUser]
       ELSE IF ~(\E u \in users : u.username = username)
       THEN [status |-> 401, detail |-> "Could not validate credentials", user |-> NoUser]
       ELSE [status |-> 200, detail |-> "",
             user |-> CHOOSE u \in users : u.username = username]

\* authenticate_user that does not verify the password; used to test the
\* properties.
authenticate_user_no_verify(username, password) ==
    IF \E u \in users : u.username = username
    THEN CHOOSE u \in users : u.username = username
    ELSE NoUser

authenticate_user(username, password) ==
    IF \E u \in users : u.username = username
                        /\ verify_password(password, u.hashed_password)
    THEN CHOOSE u \in users : u.username = username
    ELSE NoUser

(* ------------------------------ responses ------------------------------ *)
NoToken == [parses |-> FALSE, claims |-> [sub |-> None, exp |-> 0],
            sig |-> [key |-> None, over |-> [sub |-> None, exp |-> 0]]]

Response == [op |-> "none", status |-> 0, detail |-> "", token |-> NoToken,
             user |-> NULL, rows |-> {}, username |-> None, password |-> None,
             delta |-> NoDelta]

(* ----------------------------- get_requests ---------------------------- *)
\* get_requests with a plausible slip; used to test the properties.
get_requests_body_all_rows(current_user) ==
    IF RoleName(current_user) = None
    THEN [status |-> 500, detail |-> "AttributeError", rows |-> {}]
    ELSE IF RoleName(current_user) = "Admin"
    THEN [status |-> 200, detail |-> "", rows |-> requests]
    ELSE IF RoleName(current_user) = "Manager"
    THEN IF "manager_id" \in UserColumns
         THEN [status |-> 200, detail |-> "",
               rows |-> {r \in requests :
                           \E u \in users : u.manager_id = current_user.id
                                            /\ r.user_id = u.id}]
         ELSE [status |-> 500, detail |-> "AttributeError", rows |-> {}]
    ELSE IF RoleName(current_user) = "User"
    THEN [status |-> 200, detail |-> "",
          rows |-> requests]
    ELSE [status |-> 403, detail |-> "Access denied", rows |-> {}]

\* get_requests with a plausible slip; used to test the properties.
get_requests_body_owned_only(current_user) ==
    IF RoleName(current_user) = None
    THEN [status |-> 500, detail |-> "AttributeError", rows |-> {}]
    ELSE IF RoleName(current_user) = "Admin"
    THEN [status |-> 200, detail |-> "", rows |-> {r \in requests : r.user_id # NULL}]
    ELSE IF RoleName(current_user) = "Manager"
    THEN IF "manager_id" \in UserColumns
         THEN [status |-> 200, detail |-> "",
               rows |-> {r \in requests :
                           \E u \in users : u.manager_id = current_user.id
                                            /\ r.user_id = u.id}]
         ELSE [status |-> 500, detail |-> "AttributeError", rows |-> {}]
    ELSE IF RoleName(current_user) = "User"
    THEN [status |-> 200, detail |-> "",
          rows |-> {r \in requests : r.user_id # NULL /\ r.user_id = current_user.id}]
    ELSE [status |-> 403, detail |-> "Access denied", rows |-> {}]

\* get_requests with a plausible slip; used to test the properties.
get_requests_body_null_match(current_user) ==
    IF RoleName(current_user) = None
    THEN [status |-> 500, detail |-> "AttributeError", rows |-> {}]
    ELSE IF RoleName(current_user) = "Admin"
    THEN [status |-> 200, detail |-> "", rows |-> requests]
    ELSE IF RoleName(current_user) = "Manager"
    THEN IF "manager_id" \in UserColumns
         THEN [status |-> 200, detail |-> "",
               rows |-> {r \in requests :
                           \E u \in users : u.manager_id = current_user.id
                                            /\ r.user_id = u.id}]
         ELSE [status |-> 500, detail |-> "AttributeError", rows |-> {}]
    ELSE IF RoleName(current_user) = "User"
    THEN [status |-> 200, detail |-> "",
          rows |-> {r \in requests : r.user_id = NULL \/ r.user_id = current_user.id}]
    ELSE [status |-> 403, detail |-> "Access denied", rows |-> {}]

\* get_requests with a plausible slip; used to test the properties.
get_requests_body_fallthrough(current_user) ==
    IF RoleName(current_user) = None
    THEN [status |-> 500, detail |-> "AttributeError", rows |-> {}]
    ELSE IF RoleName(current_user) = "Admin"
    THEN [status |-> 200, detail |-> "", rows |-> requests]
    ELSE IF RoleName(current_user) = "Manager"
    THEN IF "manager_id" \in UserColumns
         THEN [status |-> 200, detail |-> "",
               rows |-> {r \in requests :
                           \E u \in users : u.manager_id = current_user.id
                                            /\ r.user_id = u.id}]
         ELSE [status |-> 500, detail |-> "AttributeError", rows |-> {}]
    ELSE IF RoleName(current_user) = "User"
    THEN [status |-> 200, detail |-> "",
          rows |-> {r \in requests : r.user_id # NULL /\ r.user_id = current_user.id}]
    ELSE [status |-> 200, detail |-> "", rows |-> requests]

get_requests_body(current_user) ==
    IF RoleName(current_user) = None
    THEN [status |-> 500, detail |-> "AttributeError", rows |-> {}]
    ELSE IF RoleName(current_user) = "Admin"
    THEN [status |-> 200, detail |-> "", rows |-> requests]
    ELSE IF RoleName(current_user) = "Manager"
    THEN IF "manager_id" \in UserColumns
         THEN [status |-> 200, detail |-> "",
               rows |-> {r \in requests :
                           \E u \in users : u.manager_id = current_user.id
                                            /\ r.user_id = u.id}]
         ELSE [status |-> 500, detail |-> "AttributeError", rows |-> {}]
    ELSE IF RoleName(current_user) = "User"
    THEN [status |-> 200, detail |-> "",
          rows |-> {r \in requests : r.user_id # NULL /\ r.user_id = current_user.id}]
    ELSE [status |-> 403, detail |-> "Access denied", rows |-> {}]

(* ------------------------------ database ------------------------------- *)
\* Role.name is a free string column, so the tables may hold a role the
\* API itself never creates (written by a bootstrap script or by hand).
SeedGuest ==
    [roles |-> {[id |-> 1, name |-> "Guest"]},
     users |-> {[id |-> 1, username |-> "dave",
                 hashed_password |-> hash_password("pw1", "s0"), role_id |-> 1]}]

SeedEmpty == [roles |-> {}, users |-> {}]

\* A server process between calls.  `inserted` records the tables the
\* current call has committed a row to.
IdleWorker == [pc |-> "idle", username |-> None, password |-> None,
               role_input |-> None, role_name |-> None, role_id |-> NULL,
               status |-> 0, detail |-> "", inserted |-> {}]

Init ==
    /\ \E seed \in {SeedEmpty, SeedGuest} :
          /\ roles = seed.roles
          /\ users = seed.users
    /\ requests = {}
    /\ tokens = {}
    /\ now = 0
    /\ resp = Response
    /\ workers = [w \in Workers |-> IdleWorker]

(* --------------------------- database writes --------------------------- *)
add_role(table, role_name) ==
    table \cup {[id |-> NextId(table), name |-> role_name]}

add_user(table, username, hashed_password, role_id) ==
    table \cup {[id |-> NextId(table), username |-> username,
                 hashed_password |-> hashed_password, role_id |-> role_id]}

add_request(table, bottoken, chatid, message, user_id) ==
    table \cup {[id |-> NextId(table), bottoken |-> bottoken, chatid |-> chatid,
                 message |-> message, user_id |-> user_id]}

\* The row the last insert into a table produced.
Newest(table) == CHOOSE r \in table : r.id = MaxId(table)

\* One process, nothing interleaved: query the role, insert it if absent,
\* insert the user.
create_user_in_db(username, password, role_name, salt) ==
    LET hashed_password == hash_password(password, salt)
        roles1 == IF \E r \in roles : r.name = role_name
                  THEN roles
                  ELSE add_role(roles, role_name)
        user_role == CHOOSE r \in roles1 : r.name = role_name
    IN [roles |-> roles1,
        users |-> add_user(users, username, hashed_password, user_role.id)]

(* ------------------------- handlers, one process ----------------------- *)
KnownNames == Usernames \cup {u.username : u \in users}

\* The client keeps the tokens it was given, up to MaxTokens of them.
Keep(token) ==
    IF token \in tokens \/ Cardinality(tokens) < MaxTokens
    THEN tokens' = tokens \cup {token}
    ELSE \E old \in tokens : tokens' = (tokens \ {old}) \cup {token}

\* What a client can put in the Authorization header: a token it was given,
\* one of those with the subject rewritten, one signed with its own key, or
\* a string that is no JWT.
Bearers ==
    tokens
    \cup {[t EXCEPT !.claims.sub = n] : t \in tokens, n \in KnownNames}
    \cup {jwt_encode([sub |-> n, exp |-> now + ACCESS_TOKEN_EXPIRE_MINUTES], "forged") :
            n \in KnownNames}
    \cup {NoToken}

login(username, password) ==
    LET user == authenticate_user(username, password)
        access_token == create_access_token(user.username,
                                            ACCESS_TOKEN_EXPIRE_MINUTES, now)
    IN /\ IF user = NoUser
          THEN /\ resp' = [Response EXCEPT !.op = "login", !.status = 401,
                                           !.detail = "Invalid credentials",
                                           !.username = username,
                                           !.password = password]
               /\ UNCHANGED tokens
          ELSE /\ resp' = [Response EXCEPT !.op = "login", !.status = 200,
                                           !.token = access_token,
                                           !.user = user.id,
                                           !.username = username,
                                           !.password = password]
               /\ Keep(access_token)
       /\ UNCHANGED <<roles, users, requests, now, workers>>

\* create_access_token called on its own, with any data and expires_delta.
issue_token(sub, expires_delta) ==
    LET access_token == create_access_token(sub, expires_delta, now)
    IN /\ resp' = [Response EXCEPT !.op = "create_access_token", !.status = 200,
                                   !.token = access_token, !.username = sub,
                                   !.delta = expires_delta]
       /\ Keep(access_token)
       /\ UNCHANGED <<roles, users, requests, now, workers>>

create_user(username, password, role_name, salt) ==
    LET role_lower == lower(role_name)
        db == create_user_in_db(username, password, capitalize(role_lower), salt)
        base == [Response EXCEPT !.op = "create_user", !.username = username]
    IN /\ IF role_lower \notin allowed_roles
          THEN /\ resp' = [base EXCEPT !.status = 400, !.detail = "Invalid role"]
               /\ UNCHANGED <<roles, users>>
          ELSE IF \E u \in users : u.username = username
          THEN /\ resp' = [base EXCEPT !.status = 400,
                                       !.detail = "Username already registered"]
               /\ UNCHANGED <<roles, users>>
          ELSE /\ Cardinality(users) < MaxUsers
               /\ roles' = db.roles
               /\ users' = db.users
               /\ resp' = [base EXCEPT !.status = 200, !.user = Newest(db.users).id]
       /\ UNCHANGED <<requests, tokens, now, workers>>

get_requests(token) ==
    LET auth == get_current_user(token)
        out == get_requests_body(auth.user)
        base == [Response EXCEPT !.op = "get_requests", !.token = token]
    IN /\ IF auth.status # 200
          THEN resp' = [base EXCEPT !.status = auth.status, !.detail = auth.detail]
          ELSE resp' = [base EXCEPT !.status = out.status, !.detail = out.detail,
                                    !.user = auth.user.id, !.rows = out.rows]
       /\ UNCHANGED <<roles, users, requests, tokens, now, workers>>

create_request(token, bottoken, chatid, message) ==
    LET auth == get_current_user(token)
        table == add_request(requests, bottoken, chatid, message, auth.user.id)
        base == [Response EXCEPT !.op = "create_request", !.token = token]
    IN /\ IF auth.status # 200
          THEN /\ resp' = [base EXCEPT !.status = auth.status, !.detail = auth.detail]
               /\ UNCHANGED requests
          ELSE /\ Cardinality(requests) < MaxRequests
               /\ requests' = table
               /\ resp' = [base EXCEPT !.status = 200, !.detail = "Request created",
                                       !.user = auth.user.id,
                                       !.rows = {Newest(table)}]
       /\ UNCHANGED <<roles, users, tokens, now, workers>>

handle_message(chat_id, text) ==
    LET table == add_request(requests, TELEGRAM_TOKEN, chat_id, text, NULL)
    IN /\ Cardinality(requests) < MaxRequests
       /\ requests' = table
       /\ resp' = [Response EXCEPT !.op = "handle_message", !.status = 200,
                                   !.rows = {Newest(table)}]
       /\ UNCHANGED <<roles, users, tokens, now, workers>>

Tick ==
    /\ now + TickMinutes <= MaxClock
    /\ now' = now + TickMinutes
    /\ UNCHANGED <<roles, users, requests, tokens, resp, workers>>

Next ==
    \/ \E n \in KnownNames, p \in Passwords : login(n, p)
    \/ \E n \in KnownNames \cup {None}, d \in {NoDelta, 0, ACCESS_TOKEN_EXPIRE_MINUTES} :
          issue_token(n, d)
    \/ \E n \in Usernames, p \in NewPasswords, r \in RoleNameInputs, s \in Salts :
          create_user(n, p, r, s)
    \/ \E t \in Bearers : get_requests(t)
    \/ \E t \in Bearers, m \in Messages : create_request(t, "t1", "123", m)
    \/ \E m \in Messages : handle_message("123", m)
    \/ Tick

Spec == Init /\ [][Next]_vars

(* ------------- create_user, several processes on one database ---------- *)
\* main.py 207-226: validate the role, SELECT the user by username.
cu_begin(w, username, password, role_name) ==
    LET role_lower == lower(role_name)
        call == [IdleWorker EXCEPT !.username = username, !.password = password,
                                   !.role_input = role_name]
    IN /\ workers[w].pc \in {"idle", "done"}
       /\ workers' = [workers EXCEPT ![w] =
            IF role_lower \notin allowed_roles
            THEN [call EXCEPT !.pc = "done", !.status = 400, !.detail = "Invalid role"]
            ELSE IF \E u \in users : u.username = username
            THEN [call EXCEPT !.pc = "done", !.status = 400,
                              !.detail = "Username already registered"]
            ELSE [call EXCEPT !.pc = "query_role",
                              !.role_name = capitalize(role_lower)]]
       /\ UNCHANGED <<roles, users, requests, tokens, now, resp>>

\* main.py 135-137: hash the password, SELECT the role by name.
cu_query_role(w) ==
    /\ workers[w].pc = "query_role"
    /\ workers' = [workers EXCEPT ![w] =
         IF \E r \in roles : r.name = workers[w].role_name
         THEN [@ EXCEPT !.pc = "add_user",
                        !.role_id = (CHOOSE r \in roles : r.name = workers[w].role_name).id]
         ELSE [@ EXCEPT !.pc = "add_role"]]
    /\ UNCHANGED <<roles, users, requests, tokens, now, resp>>

\* main.py 139-142: INSERT the role and commit; roles.name is unique.
cu_add_role(w) ==
    /\ workers[w].pc = "add_role"
    /\ IF \E r \in roles : r.name = workers[w].role_name
       THEN /\ workers' = [workers EXCEPT ![w] =
                 [@ EXCEPT !.pc = "done", !.status = 500,
                           !.detail = "IntegrityError roles.name"]]
            /\ UNCHANGED roles
       ELSE /\ roles' = add_role(roles, workers[w].role_name)
            /\ workers' = [workers EXCEPT ![w] =
                 [@ EXCEPT !.pc = "add_user", !.role_id = NextId(roles),
                           !.inserted = @ \cup {"roles"}]]
    /\ UNCHANGED <<users, requests, tokens, now, resp>>

\* main.py 144-152: INSERT the user and commit; users.username is unique.
cu_add_user(w, salt) ==
    /\ workers[w].pc = "add_user"
    /\ IF \E u \in users : u.username = workers[w].username
       THEN /\ workers' = [workers EXCEPT ![w] =
                 [@ EXCEPT !.pc = "done", !.status = 500,
                           !.detail = "IntegrityError users.username"]]
            /\ UNCHANGED users
       ELSE /\ Cardinality(users) < MaxUsers
            /\ users' = add_user(users, workers[w].username,
                                 hash_password(workers[w].password, salt),
                                 workers[w].role_id)
            /\ workers' = [workers EXCEPT ![w] =
                 [@ EXCEPT !.pc = "done", !.status = 200,
                           !.inserted = @ \cup {"users"}]]
    /\ UNCHANGED <<roles, requests, tokens, now, resp>>

NextConc ==
    \/ \E w \in Workers, n \in Usernames, p \in NewPasswords, r \in RoleNameInputs :
          cu_begin(w, n, p, r)
    \/ \E w \in Workers : cu_query_role(w)
    \/ \E w \in Workers : cu_add_role(w)
    \/ \E w \in Workers, s \in Salts : cu_add_user(w, s)

SpecConc == Init /\ [][NextConc]_vars

(* ============================== properties ============================= *)
UserById(id) == CHOOSE u \in users : u.id = id

\* The caller the last get_requests authenticated.
Caller == IF \E u \in users : u.id = resp.user THEN UserById(resp.user) ELSE NoUser

Protected == {"get_requests", "create_request"}

\* C1: a caller with role User gets exactly the rows whose user_id is its
\* own id: a request it created is listed for it and for no other User, and
\* a row of another owner or of no owner is never listed for it.
C1_UserScopeExact ==
    /\ \A u \in users :
          RoleName(u) = "User" =>
             /\ get_requests_body(u).status = 200
             /\ get_requests_body(u).rows = {r \in requests : r.user_id = u.id}
    /\ (resp.op = "get_requests" /\ resp.status = 200 /\ RoleName(Caller) = "User") =>
          resp.rows = {r \in requests : r.user_id = Caller.id}
    /\ (resp.op = "create_request" /\ resp.status = 200) =>
          /\ resp.rows \subseteq requests
          /\ \A u \in users :
                RoleName(u) = "User" =>
                   (resp.rows \subseteq get_requests_body(u).rows
                      <=> u.username = resp.token.claims.sub)
    /\ resp.op = "handle_message" =>
          \A u \in users :
             RoleName(u) = "User" => resp.rows \cap get_requests_body(u).rows = {}

\* A User lists its own request while the table also holds a row that is
\* not its own.
C1_Witness ==
    /\ resp.op = "get_requests" /\ resp.status = 200
    /\ RoleName(Caller) = "User"
    /\ resp.rows # {}
    /\ \E r \in requests : r.user_id # Caller.id

\* C2 (as claimed): get_requests called by a Manager completes successfully
\* and returns none of the Manager's own requests.
C2_ManagerScope ==
    (resp.op = "get_requests" /\ RoleName(Caller) = "Manager") =>
       /\ resp.status = 200
       /\ \A r \in resp.rows : r.user_id # Caller.id

\* C3: a caller with role Admin gets every row of the requests table,
\* ownerless rows included, so its result contains the result of every
\* other caller on the same tables.
C3_AdminSeesAll ==
    /\ \A a \in users :
          RoleName(a) = "Admin" =>
             /\ get_requests_body(a).status = 200
             /\ get_requests_body(a).rows = requests
             /\ \A u \in users : get_requests_body(u).rows \subseteq get_requests_body(a).rows
    /\ (resp.op = "get_requests" /\ resp.status = 200 /\ RoleName(Caller) = "Admin") =>
          resp.rows = requests

\* An Admin lists a table holding an ownerless row and an owned row.
C3_Witness ==
    /\ resp.op = "get_requests" /\ resp.status = 200
    /\ RoleName(Caller) = "Admin"
    /\ \E r \in resp.rows : r.user_id = NULL
    /\ \E r \in resp.rows : r.user_id # NULL

\* C4: a row written by handle_message has no user_id, and no ownerless row
\* is in the get_requests result of a caller whose role is not Admin.
C4_OwnerlessAdminOnly ==
    /\ resp.op = "handle_message" =>
          /\ resp.rows # {}
          /\ resp.rows \subseteq requests
          /\ \A r \in resp.rows : r.user_id = NULL /\ r.bottoken = TELEGRAM_TOKEN
    /\ \A u \in users :
          RoleName(u) # "Admin" =>
             \A r \in get_requests_body(u).rows : r.user_id # NULL
    /\ (resp.op = "get_requests" /\ RoleName(Caller) # "Admin") =>
          \A r \in resp.rows : r.user_id # NULL

\* A User lists its requests while the table holds a row the bot wrote.
C4_Witness ==
    /\ resp.op = "get_requests" /\ resp.status = 200
    /\ RoleName(Caller) = "User"
    /\ \E r \in requests : r.user_id = NULL /\ r.bottoken = TELEGRAM_TOKEN

\* The bearer tokens the claim lists: malformed, bad signature, expired,
\* no sub claim, a subject that is no existing user.
Malformed(t) == ~t.parses
BadSignature(t) == t.parses /\ (t.sig.key # SECRET_KEY \/ t.sig.over # t.claims)
Expired(t) == t.claims.exp < now
NoSubject(t) == t.claims.sub = None
UnknownSubject(t) == \A u \in users : u.username # t.claims.sub
InvalidBearer(t) ==
    Malformed(t) \/ BadSignature(t) \/ Expired(t) \/ NoSubject(t) \/ UnknownSubject(t)

\* C5: a protected operation called with a malformed, badly signed, expired,
\* subject-less or unknown-subject token answers 401, returns no row and
\* inserts no row.
C5_Unauthenticated ==
    [][(resp'.op \in Protected /\ now' = now /\ InvalidBearer(resp'.token)) =>
          /\ resp'.status = 401
          /\ resp'.rows = {}
          /\ requests' = requests]_vars

\* create_request was refused for a correctly signed token of an existing
\* user that has expired.
C5_Witness ==
    /\ resp.op = "create_request" /\ resp.status = 401
    /\ ~Malformed(resp.token) /\ ~BadSignature(resp.token)
    /\ ~NoSubject(resp.token) /\ ~UnknownSubject(resp.token)
    /\ Expired(resp.token)
    /\ Cardinality(requests) < MaxRequests

\* The submitted credentials are those of a stored user.
GoodCredentials(username, password) ==
    \E u \in users :
       /\ u.username = username
       /\ u.hashed_password = hash_password(password, u.hashed_password.salt)

\* C6: login answers with a token for the submitted username exactly when
\* the username exists and the password matches its hash; otherwise it
\* answers 401 'Invalid credentials', for an unknown username and for a
\* wrong password alike.
C6_LoginExact ==
    resp.op = "login" =>
       IF GoodCredentials(resp.username, resp.password)
       THEN /\ resp.status = 200
            /\ resp.token.claims.sub = resp.username
            /\ ~Malformed(resp.token) /\ ~BadSignature(resp.token)
            /\ resp.token.claims.exp - ACCESS_TOKEN_EXPIRE_MINUTES \in 0..now
       ELSE /\ resp.status = 401
            /\ resp.detail = "Invalid credentials"
            /\ resp.token = NoToken

\* login refused an existing username with a wrong password.
C6_Witness ==
    /\ resp.op = "login" /\ resp.status = 401
    /\ \E u \in users : u.username = resp.username
    /\ ~GoodCredentials(resp.username, resp.password)

\* C7: a caller whose role is none of Admin, Manager, User gets 403 and no
\* row.
C7_DefaultDeny ==
    /\ \A u \in users :
          RoleName(u) \notin {"Admin", "Manager", "User"} =>
             /\ get_requests_body(u).status = 403
             /\ get_requests_body(u).rows = {}
    /\ (resp.op = "get_requests" /\ Caller # NoUser
        /\ RoleName(Caller) \notin {"Admin", "Manager", "User"}) =>
          resp.status = 403 /\ resp.rows = {}

\* A user with role Guest called get_requests while the table had rows.
C7_Witness ==
    /\ resp.op = "get_requests" /\ resp.status = 403
    /\ RoleName(Caller) = "Guest"
    /\ requests # {}

\* C9 (as claimed): a token issued with expires_delta = timedelta(0) is
\* rejected with 401 by get_current_user from the moment it is issued.
C9_ZeroTtlRejected ==
    (resp.op = "create_access_token" /\ resp.delta = 0) =>
       get_current_user(resp.token).status = 401

UsernamesUnique == \A u, v \in users : u.username = v.username => u = v
RoleNamesUnique == \A r, q \in roles : r.name = q.name => r = q

\* The step in which process w answers its call.
Answers(w) == workers'[w] # workers[w] /\ workers'[w].pc = "done"

\* C8 (as claimed): usernames are unique, and a create_user call with an
\* invalid role or with a username that is registered is answered 400 and
\* inserts nothing.  Calls that fail on the insert of the role (C10) are
\* left out, so that a violation is a duplicate username alone.
C8_DuplicateIs400 ==
    /\ []UsernamesUnique
    /\ [][\A w \in Workers :
            (Answers(w)
             /\ workers'[w].detail # "IntegrityError roles.name"
             /\ (lower(workers'[w].role_input) \notin allowed_roles
                 \/ \E u \in users : u.username = workers'[w].username)) =>
               /\ workers'[w].status = 400
               /\ workers'[w].inserted = {}
               /\ users' = users /\ roles' = roles]_vars

\* C10 (as claimed): role names are unique, and a call that finds the role
\* of its user already in the table when it writes reuses that row: it does
\* not fail on the role.
C10_RoleReused ==
    /\ []RoleNamesUnique
    /\ [][\A w \in Workers :
            (workers[w].pc = "add_role" /\ workers'[w] # workers[w]
             /\ \E r \in roles : r.name = workers[w].role_name) =>
               /\ workers'[w].pc = "add_user"
               /\ workers'[w].role_id =
                     (CHOOSE r \in roles : r.name = workers[w].role_name).id
               /\ roles' = roles]_vars

====
